---- MODULE Spec2Model ----
(***************************************************************************)
(* Telegram RERA lookup backend (src/main.py): the process-wide globals    *)
(* client / phone_code_hash / pending_phone, the session file, and the     *)
(* HTTP handlers that drive them.                                          *)
(*                                                                         *)
(* A handler is a coroutine: it runs without interruption from one `await' *)
(* of an adapter call to the next.  Each such section is one step of the   *)
(* model (begin / resume).  Spec runs every request to completion before   *)
(* the next one starts; SpecAsync lets the sections of up to MaxTasks      *)
(* requests interleave, as the event loop does.                            *)
(*                                                                         *)
(* The Telethon client is an external collaborator, modelled as a fake     *)
(* adapter: client objects on a heap, the authorisation table and the      *)
(* issued challenge tokens kept by the Telegram side, and a `fault' input  *)
(* naming the adapter call (if any) that raises.  What a call does on the  *)
(* Telegram side happens when the call is issued; what it does to the      *)
(* client object (connected or not) happens when the await returns.        *)
(***************************************************************************)
EXTENDS Integers, Sequences, FiniteSets, TLC

\* ---------------------------------------------------------------- bounds
\* TelegramClient objects the process may construct (startup + re-creations).
MaxHandles == 2
\* verification codes the fake adapter may issue.
MaxSends == 2
\* requests that may be in flight at once under SpecAsync.
MaxTasks == 2
\* requests admitted in one run of SpecAsync.
MaxRequests == 3
\* messages a get_messages answer may hold (the handler asks for limit=5).
MaxMessages == 2

\* ---------------------------------------------------------------- values
\* Python's None for the string-valued globals and request fields.
None == "None"
\* phone_code_hash = None (the only falsy value the global ever takes).
NoHash == 0
\* client = None.
NoClient == 0
\* os.path.exists(SESSION_FILE) is false.
NoFile == -1

Phones == {"+15550001", "+15550002"}
\* the account of the second phone has a two-factor password set.
Has2FA(phone) == phone = "+15550002"
CorrectCode == "123456"
Codes == {CorrectCode, "wrongcode"}
CorrectPassword == "pw"
\* VerifyCodeRequest.password: Optional[str] = None
Passwords == {None, "", CorrectPassword}

\* API_KEY, and the X-API-Key header of a request: the key, another string,
\* or None when the request carries no such header.
API_KEY == "your-secret-api-key"
ApiKeys == {API_KEY, "wrong-key", None}

\* the routes that declare Depends(verify_api_key).
Routes == {"status", "start", "verify", "lookup", "logout"}

\* RERARequest.rera_number, a string as the sequence of its characters.
RERANumbers == {<<" ", "1", "2", " ">>}

\* the messages of the conversation with the bot: the caller's own (out),
\* and the bot's, with a text or without one (a photo, a sticker).
Messages ==
  {[out |-> TRUE, text |-> "12"],
   [out |-> FALSE, text |-> ""],
   [out |-> FALSE, text |-> "Valid RERA"]}

\* what tc.get_messages(bot, limit=5) may answer, newest message first.
MessageLists ==
  UNION {[1..n -> Messages] : n \in 0..MaxMessages}

\* the reply the handler gives when it found no text.
NoResponseYet == "No response received from bot yet. Please try again in a moment."

\* the adapter call that raises in a request ("none": no call raises;
\* "log_out_rpc": auth.logOut answers an RPC error, which log_out swallows,
\* returning False).
Faults ==
  {"none", "connect", "is_user_authorized", "get_me", "send_code_request",
   "sign_in", "sign_in_password", "log_out", "log_out_rpc",
   "get_entity", "send_message", "get_messages"}

\* auth keys: key 0 is the one a previous run of the process may have left
\* in the session file; key h is generated by the h-th client object when it
\* is built from an empty session string.
Keys == 0..MaxHandles

Tasks == 1..MaxTasks

VARIABLES
  lifecycle,        \* "init" | "running" | "stopped"  (startup / shutdown events)
  client,           \* global client: NoClient or an index into handles
  handles,          \* the TelegramClient objects built so far: [key, connected]
  phone_code_hash,  \* global phone_code_hash: NoHash or a challenge token
  pending_phone,    \* global pending_phone: None or a phone
  session_file,     \* content of SESSION_FILE: NoFile or the saved auth key
  auth,             \* Telegram side: auth key -> phone of the signed-in user, or None
  issued,           \* Telegram side: issued[t] = phone the challenge token t was sent to
  tasks,            \* the requests in flight, each suspended in an await
  admitted,         \* how many requests SpecAsync has admitted so far
  last              \* the most recently completed request and its response

vars ==
  <<lifecycle, client, handles, phone_code_hash, pending_phone, session_file,
    auth, issued, tasks, admitted, last>>

\* ---------------------------------------------------------------- responses
\* One shape for every request/response pair; fields a route does not set
\* keep these values.  calls lists the adapter calls the request awaited,
\* fault the call that raised on it, hash_used the challenge token it
\* handled, answer what its first sign_in returned.
NoResp ==
  [op |-> "none", phone |-> None, code |-> None, password |-> None,
   fault |-> "none", status |-> 0, detail |-> None, success |-> FALSE,
   code_sent |-> FALSE, requires_2fa |-> FALSE, authenticated |-> FALSE,
   me_phone |-> None, calls |-> <<>>, hash_used |-> NoHash, answer |-> None,
   x_api_key |-> None, route |-> None, rera_number |-> <<>>,
   messages |-> <<>>, query |-> <<>>, response |-> None]

Request(op, phone, code, password) ==
  [NoResp EXCEPT !.op = op, !.phone = phone, !.code = code,
                 !.password = password]

\* RERARequest(rera_number=...) posted to /rera/lookup; messages is what the
\* conversation with the bot will hold when the handler reads it.
RERARequest(rera_number, messages) ==
  [NoResp EXCEPT !.op = "lookup", !.rera_number = rera_number,
                 !.messages = messages]

Range(s) == {s[i] : i \in DOMAIN s}

\* str.strip(): the string without its leading and trailing blanks.
RECURSIVE lstrip(_)
lstrip(s) ==
  IF s # <<>> /\ Head(s) = " " THEN lstrip(Tail(s)) ELSE s

RECURSIVE rstrip(_)
rstrip(s) ==
  IF s # <<>> /\ s[Len(s)] = " " THEN rstrip(SubSeq(s, 1, Len(s) - 1)) ELSE s

strip(s) == rstrip(lstrip(s))

\* the globals and the outside world as one record, so that a section of a
\* handler is a function from the state before to the state after.
Cur ==
  [client |-> client, handles |-> handles, phone_code_hash |-> phone_code_hash,
   pending_phone |-> pending_phone, session_file |-> session_file,
   auth |-> auth, issued |-> issued]

\* ---------------------------------------------------------------- coroutines
\* A request in flight: pc names the adapter call it awaits ("begin": not
\* started, "done": returned), tc is the client get_client gave it, res the
\* awaited call's outcome, resp the response so far.
Idle == [pc |-> "idle", tc |-> NoClient, res |-> None, resp |-> NoResp]

NewTask(request) ==
  [pc |-> "begin", tc |-> NoClient, res |-> None, resp |-> request]

Go(st, t) == [st |-> st, task |-> t]

\* the fault names the call being issued.
Hits(fault, call) ==
  \/ fault = call
  \/ fault = "log_out_rpc" /\ call = "log_out"

\* `await call': suspend until the call returns res.
Await(st, t, call, res, fault) ==
  Go(st, [t EXCEPT !.pc = call, !.res = res,
                   !.resp.calls = Append(@, call),
                   !.resp.fault = IF Hits(fault, call) THEN fault ELSE @])

\* what the log keeps of a request: the code and the password only if the
\* handler passed them on to the adapter.
Logged(resp) ==
  [resp EXCEPT
     !.code = IF "sign_in" \in Range(resp.calls) THEN @ ELSE None,
     !.password = IF resp.answer = "2fa" THEN @ ELSE None,
     !.messages = IF resp.response # None THEN @ ELSE <<>>]

\* `return resp' (or `raise HTTPException').
Return(st, t, resp) ==
  Go(st, [t EXCEPT !.pc = "done", !.res = None, !.resp = Logged(resp)])

\* variant of handler_error: get_session_status lets the exception out.
handler_error_propagates(st, t) ==
  Return(st, t, [t.resp EXCEPT !.status = 500, !.detail = "AdapterError"])

\* the handlers' `except Exception' clauses (and startup's, which only logs).
handler_error(st, t) ==
  CASE t.resp.op = "status" ->
         Return(st, t, [t.resp EXCEPT !.status = 200, !.authenticated = FALSE])
    [] t.resp.op \in {"start", "verify"} ->
         Return(st, t, [t.resp EXCEPT !.status = 400, !.detail = "AdapterError"])
    [] t.resp.op \in {"logout", "lookup"} ->
         Return(st, t, [t.resp EXCEPT !.status = 500, !.detail = "AdapterError"])
    [] t.resp.op = "startup" ->
         Return(st, t, t.resp)

\* ---------------------------------------------------------------- session store
\* what load_session returns when the file does not exist: "".
EmptySession == -2

\* load_session(): the stored string if the file exists, else "".
load_session(st) ==
  IF st.session_file = NoFile THEN EmptySession ELSE st.session_file

\* save_session(session_string): overwrite the file.
save_session(st, session_string) ==
  [st EXCEPT !.session_file = session_string]

\* variant of remove_session: the file is left in place.
remove_session_skipped(st) == st

\* logout, lines 280-282: remove the session file if it exists.
remove_session(st) == [st EXCEPT !.session_file = NoFile]

\* ---------------------------------------------------------------- adapter
\* An adapter call raises when there is no client object (get_client
\* returned None: AttributeError), when the client object is not connected
\* (ConnectionError) or when the fault names the call.
Raises(st, tc, fault, call) ==
  \/ tc = NoClient
  \/ ~st.handles[tc].connected
  \/ fault = call

\* tc.is_user_authorized(): the Telegram side knows a user for tc's auth key.
is_user_authorized(st, tc, fault) ==
  IF Raises(st, tc, fault, "is_user_authorized") THEN "raise"
  ELSE IF st.auth[st.handles[tc].key] # None THEN "yes"
  ELSE "no"

\* tc.get_me(): the phone of the user, None when there is no user.
get_me(st, tc, fault) ==
  IF Raises(st, tc, fault, "get_me") THEN "raise"
  ELSE st.auth[st.handles[tc].key]

\* tc.session.save(): the session string carrying tc's auth key.
session_save(st, tc) == st.handles[tc].key

\* tc.send_code_request(phone): the Telegram side issues a fresh token.
send_code_request(st, phone) ==
  [st EXCEPT !.issued = Append(@, phone)]

\* tc.sign_in(phone, code, phone_code_hash=hash):
\*   "raise"   any error other than the two the handler names
\*   "invalid" PhoneCodeInvalidError
\*   "2fa"     SessionPasswordNeededError
\*   "ok"      tc's auth key now belongs to the account of phone
sign_in(st, tc, phone, code, hash, fault) ==
  IF Raises(st, tc, fault, "sign_in") THEN "raise"
  ELSE IF hash \notin DOMAIN st.issued \/ st.issued[hash] # phone THEN "raise"
  ELSE IF code # CorrectCode THEN "invalid"
  ELSE IF Has2FA(phone) THEN "2fa"
  ELSE "ok"

\* tc.sign_in(password=password)
sign_in_password(st, tc, password, fault) ==
  IF Raises(st, tc, fault, "sign_in_password") THEN "raise"
  ELSE IF password # CorrectPassword THEN "raise"
  ELSE "ok"

\* the Telegram side binds tc's auth key to the account that signed in.
Authorize(st, tc, phone, answer) ==
  IF answer = "ok"
  THEN [st EXCEPT !.auth[st.handles[tc].key] = phone]
  ELSE st

\* client.log_out(): "raise", "false" (an RPC error, swallowed) or "ok".
log_out(st, tc, fault) ==
  IF Raises(st, tc, fault, "log_out") THEN "raise"
  ELSE IF fault = "log_out_rpc" THEN "false"
  ELSE "ok"

\* log_out on the Telegram side: the auth key is forgotten.
log_out_server(st, tc, answer) ==
  IF answer = "ok"
  THEN [st EXCEPT !.auth[st.handles[tc].key] = None]
  ELSE st

\* log_out on the client object: it disconnects.
log_out_local(st, tc, answer) ==
  IF answer = "ok"
  THEN [st EXCEPT !.handles[tc].connected = FALSE]
  ELSE st

\* ---------------------------------------------------------------- get_session_status
\* lines 129-136, after get_client
status_begin(st, t, fault) ==
  Await(st, t, "is_user_authorized", is_user_authorized(st, t.tc, fault), fault)

\* lines 131-136, after is_user_authorized
status_after_is_user_authorized(st, t, fault) ==
  IF t.res = "raise" THEN handler_error(st, t)
  ELSE IF t.res = "no"
    THEN Return(st, t, [t.resp EXCEPT !.status = 200, !.authenticated = FALSE])
  ELSE Await(st, t, "get_me", get_me(st, t.tc, fault), fault)

\* lines 134-136, after get_me
status_after_get_me(st, t) ==
  IF t.res = "raise" THEN handler_error(st, t)
  ELSE Return(st, t, [t.resp EXCEPT !.status = 200, !.authenticated = TRUE,
                                    !.me_phone = t.res])

\* ---------------------------------------------------------------- start_auth
\* variant of store_pending: only the token is remembered.
store_pending_hash_only(st, phone, hash) ==
  [st EXCEPT !.phone_code_hash = hash]

\* lines 156-157: remember the challenge of this request.
store_pending(st, phone, hash) ==
  [st EXCEPT !.phone_code_hash = hash, !.pending_phone = phone]

\* variant of start_already_authenticated: the test is inverted.
start_already_authenticated_inverted(answer) == answer = "no"

\* line 151: the adapter, not local memory, says whether the client is
\* already authenticated.
start_already_authenticated(answer) == answer = "yes"

\* line 151, after get_client
start_begin(st, t, fault) ==
  Await(st, t, "is_user_authorized", is_user_authorized(st, t.tc, fault), fault)

\* lines 151-155, after is_user_authorized
start_after_is_user_authorized(st, t, fault) ==
  IF t.res = "raise" THEN handler_error(st, t)
  ELSE IF start_already_authenticated(t.res)
    THEN Return(st, t, [t.resp EXCEPT !.status = 200, !.success = TRUE,
                                      !.detail = "Already authenticated",
                                      !.code_sent = FALSE])
  ELSE IF Raises(st, t.tc, fault, "send_code_request")
    THEN Await(st, t, "send_code_request", "raise", fault)
  ELSE
    LET sent == send_code_request(st, t.resp.phone)
    IN Await(sent, [t EXCEPT !.resp.hash_used = Len(sent.issued)],
             "send_code_request", "ok", fault)

\* lines 156-160, after send_code_request
start_after_send_code_request(st, t) ==
  IF t.res = "raise" THEN handler_error(st, t)
  ELSE Return(store_pending(st, t.resp.phone, t.resp.hash_used), t,
              [t.resp EXCEPT !.status = 200, !.success = TRUE,
                             !.detail = "Code sent to Telegram",
                             !.code_sent = TRUE])

\* ---------------------------------------------------------------- verify_code
\* variant of phone_mismatch: nothing pending is not a mismatch.
phone_mismatch_unless_none(st, phone) ==
  st.pending_phone # None /\ st.pending_phone # phone

\* line 176: pending_phone != request.phone
phone_mismatch(st, phone) == st.pending_phone # phone

\* line 179: not phone_code_hash
no_pending(st) == st.phone_code_hash = NoHash

\* line 186: not request.password
no_password(password) == password \in {None, ""}

\* lines 197-198: clear pending state.
clear_pending(st) ==
  [st EXCEPT !.phone_code_hash = NoHash, !.pending_phone = None]

\* variant of verify_success: the session is not saved.
verify_success_unsaved(st, t) ==
  Return(clear_pending(st), t,
         [t.resp EXCEPT !.status = 200, !.success = TRUE,
                        !.detail = "Successfully authenticated"])

\* lines 192-201: save the session, clear the pending state.
verify_success(st, t) ==
  Return(clear_pending(save_session(st, session_save(st, t.tc))), t,
         [t.resp EXCEPT !.status = 200, !.success = TRUE,
                        !.detail = "Successfully authenticated"])

\* variant of verify_invalid: the pending state is cleared on a wrong code.
verify_invalid_clears(st, t) ==
  Return(clear_pending(st), t,
         [t.resp EXCEPT !.status = 400, !.detail = "InvalidCode"])

\* lines 189-190: PhoneCodeInvalidError becomes a 400; the globals are not
\* touched.
verify_invalid(st, t) ==
  Return(st, t, [t.resp EXCEPT !.status = 400, !.detail = "InvalidCode"])

\* variant of verify_needs_password: the pending state is consumed.
verify_needs_password_consumes(st, t) ==
  Return(clear_pending(st), t,
         [t.resp EXCEPT !.status = 200, !.success = FALSE,
                        !.requires_2fa = TRUE,
                        !.detail = "2FA password required"])

\* lines 186-187: 2FA is enabled and no password came with the request; the
\* globals are not touched.
verify_needs_password(st, t) ==
  Return(st, t, [t.resp EXCEPT !.status = 200, !.success = FALSE,
                               !.requires_2fa = TRUE,
                               !.detail = "2FA password required"])

\* lines 175-183, after get_client
verify_begin(st, t, fault) ==
  IF phone_mismatch(st, t.resp.phone)
    THEN Return(st, t, [t.resp EXCEPT !.status = 400, !.detail = "PhoneMismatch"])
  ELSE IF no_pending(st)
    THEN Return(st, t, [t.resp EXCEPT !.status = 400,
                                      !.detail = "NoPendingChallenge"])
  ELSE
    LET hash == st.phone_code_hash
        answer == sign_in(st, t.tc, t.resp.phone, t.resp.code, hash, fault)
    IN Await(Authorize(st, t.tc, t.resp.phone, answer),
             [t EXCEPT !.resp.hash_used = hash, !.resp.answer = answer],
             "sign_in", answer, fault)

\* lines 184-201, after sign_in
verify_after_sign_in(st, t, fault) ==
  IF t.res = "raise" THEN handler_error(st, t)
  ELSE IF t.res = "invalid" THEN verify_invalid(st, t)
  ELSE IF t.res = "2fa"
    THEN IF no_password(t.resp.password) THEN verify_needs_password(st, t)
         ELSE LET answer == sign_in_password(st, t.tc, t.resp.password, fault)
              IN Await(Authorize(st, t.tc, t.resp.phone, answer), t,
                       "sign_in_password", answer, fault)
  ELSE verify_success(st, t)

\* lines 192-201, after sign_in(password=...)
verify_after_sign_in_password(st, t) ==
  IF t.res = "raise" THEN handler_error(st, t)
  ELSE verify_success(st, t)

\* ---------------------------------------------------------------- lookup_rera
\* lines 243-247: the text of the first message that is not the caller's own.
RECURSIVE response_text(_)
response_text(messages) ==
  IF messages = <<>> THEN None
  ELSE IF Head(messages).out THEN response_text(Tail(messages))
  ELSE Head(messages).text

\* lines 243-247: the messages the loop looks at, up to its `break'.
RECURSIVE examined(_)
examined(messages) ==
  IF messages = <<>> THEN <<>>
  ELSE IF Head(messages).out THEN <<Head(messages)>> \o examined(Tail(messages))
  ELSE <<Head(messages)>>

\* line 249: `if response_text' (None and the empty string are falsy).
truthy(text) == text # None /\ text # ""

\* lines 249-261: the reply, or the fixed sentence when there is none.
lookup_result(st, t) ==
  LET text == response_text(t.resp.messages)
  IN Return(st, t, [t.resp EXCEPT !.status = 200, !.success = TRUE,
                                  !.messages = examined(@),
                                  !.response = IF truthy(text) THEN text
                                               ELSE NoResponseYet])

\* line 216, after get_client
lookup_begin(st, t, fault) ==
  Await(st, t, "is_user_authorized", is_user_authorized(st, t.tc, fault), fault)

\* variant of lookup_after_is_user_authorized: the answer is not looked at.
lookup_after_is_user_authorized_unchecked(st, t, fault) ==
  IF t.res = "raise" THEN handler_error(st, t)
  ELSE Await(st, [t EXCEPT !.resp.query = strip(t.resp.rera_number)],
             "get_entity",
             IF Raises(st, t.tc, fault, "get_entity") THEN "raise" ELSE "ok",
             fault)

\* lines 216-226, after is_user_authorized
lookup_after_is_user_authorized(st, t, fault) ==
  IF t.res = "raise" THEN handler_error(st, t)
  ELSE IF t.res = "no"
    THEN Return(st, t, [t.resp EXCEPT !.status = 401,
                                      !.detail = "NotAuthenticated"])
  ELSE Await(st, [t EXCEPT !.resp.query = strip(t.resp.rera_number)],
             "get_entity",
             IF Raises(st, t.tc, fault, "get_entity") THEN "raise" ELSE "ok",
             fault)

\* lines 226-232, after get_entity
lookup_after_get_entity(st, t, fault) ==
  IF t.res = "raise"
    THEN Return(st, t, [t.resp EXCEPT !.status = 404,
                                      !.detail = "TargetNotFound"])
  ELSE Await(st, t, "send_message",
             IF Raises(st, t.tc, fault, "send_message") THEN "raise" ELSE "ok",
             fault)

\* lines 232-236, after send_message
lookup_after_send_message(st, t, fault) ==
  IF t.res = "raise" THEN handler_error(st, t)
  ELSE Await(st, t, "sleep", "ok", fault)

\* lines 236-239, after asyncio.sleep(3)
lookup_after_sleep(st, t, fault) ==
  Await(st, t, "get_messages",
        IF Raises(st, t.tc, fault, "get_messages") THEN "raise" ELSE "ok",
        fault)

\* lines 239-261, after get_messages
lookup_after_get_messages(st, t) ==
  IF t.res = "raise" THEN handler_error(st, t)
  ELSE lookup_result(st, t)

\* ---------------------------------------------------------------- logout
\* lines 276-284, up to the await of log_out
logout_begin(st, t, fault) ==
  IF st.client # NoClient
  THEN LET answer == log_out(st, st.client, fault)
       IN Await(log_out_server(st, st.client, answer),
                [t EXCEPT !.tc = st.client], "log_out", answer, fault)
  ELSE Return(remove_session(st), t,
              [t.resp EXCEPT !.status = 200, !.success = TRUE,
                             !.detail = "Logged out"])

\* lines 278-284, after log_out
logout_after_log_out(st, t) ==
  IF t.res = "raise" THEN handler_error(st, t)
  ELSE Return(remove_session([log_out_local(st, t.tc, t.res)
                                EXCEPT !.client = NoClient]), t,
              [t.resp EXCEPT !.status = 200, !.success = TRUE,
                             !.detail = "Logged out"])

\* ---------------------------------------------------------------- get_client
\* what the caller of get_client does once it has the client.
after_get_client(st, t, fault) ==
  CASE t.resp.op = "startup" -> Return(st, t, t.resp)
    [] t.resp.op = "status" -> status_begin(st, t, fault)
    [] t.resp.op = "start" -> start_begin(st, t, fault)
    [] t.resp.op = "verify" -> verify_begin(st, t, fault)
    [] t.resp.op = "lookup" -> lookup_begin(st, t, fault)

\* get_client(): hand out the global client, or build one from the stored
\* session string, install it as the global and then await its connect().
get_client(st, t, fault) ==
  IF st.client # NoClient
  THEN after_get_client(st, [t EXCEPT !.tc = st.client], fault)
  ELSE
    LET session_string == load_session(st)
        h == Len(st.handles) + 1
        key == IF session_string = EmptySession THEN h ELSE session_string
    IN Await([st EXCEPT !.client = h,
                        !.handles = Append(@, [key |-> key, connected |-> FALSE])],
             [t EXCEPT !.tc = h], "connect",
             IF fault = "connect" THEN "raise" ELSE "ok", fault)

\* get_client, line 94 onwards: connect() returned or raised; `return client'
\* reads the global again.
get_client_after_connect(st, t, fault) ==
  IF t.res = "raise" THEN handler_error(st, t)
  ELSE after_get_client([st EXCEPT !.handles[t.tc].connected = TRUE],
                        [t EXCEPT !.tc = st.client], fault)

\* shutdown(): disconnect the global client if there is one.
shutdown(st) ==
  IF st.client # NoClient
  THEN [st EXCEPT !.handles[st.client].connected = FALSE]
  ELSE st

\* ---------------------------------------------------------------- event loop
\* the first section of a handler: up to its first await.
begin(st, t, fault) ==
  IF t.resp.op = "logout" THEN logout_begin(st, t, fault)
  ELSE get_client(st, t, fault)

\* the section after the await the task is suspended in.
resume(st, t, fault) ==
  CASE t.pc = "connect" -> get_client_after_connect(st, t, fault)
    [] t.pc = "is_user_authorized" /\ t.resp.op = "status" ->
         status_after_is_user_authorized(st, t, fault)
    [] t.pc = "is_user_authorized" /\ t.resp.op = "start" ->
         start_after_is_user_authorized(st, t, fault)
    [] t.pc = "is_user_authorized" /\ t.resp.op = "lookup" ->
         lookup_after_is_user_authorized(st, t, fault)
    [] t.pc = "get_entity" -> lookup_after_get_entity(st, t, fault)
    [] t.pc = "send_message" -> lookup_after_send_message(st, t, fault)
    [] t.pc = "sleep" -> lookup_after_sleep(st, t, fault)
    [] t.pc = "get_messages" -> lookup_after_get_messages(st, t)
    [] t.pc = "get_me" -> status_after_get_me(st, t)
    [] t.pc = "send_code_request" -> start_after_send_code_request(st, t)
    [] t.pc = "sign_in" -> verify_after_sign_in(st, t, fault)
    [] t.pc = "sign_in_password" -> verify_after_sign_in_password(st, t)
    [] t.pc = "log_out" -> logout_after_log_out(st, t)

\* a handler with no other request in flight: every section in turn.
RECURSIVE Complete(_, _)
Complete(x, fault) ==
  IF x.task.pc = "done" THEN x
  ELSE Complete(resume(x.st, x.task, fault), fault)

Handle(st, request, fault) ==
  Complete(begin(st, NewTask(request), fault), fault)

\* ---------------------------------------------------------------- verify_api_key
\* variant of verify_api_key: every request is let through.
verify_api_key_open(x_api_key) == 200

\* Depends(verify_api_key): 200 lets the request through to its handler.
\* x_api_key is declared Header(...), a required header: a request without
\* it is answered 422 by the framework before verify_api_key is called.
verify_api_key(x_api_key) ==
  IF x_api_key = None THEN 422
  ELSE IF x_api_key # API_KEY THEN 401
  ELSE 200

\* the answer to a request that did not pass the dependency.
rejected(st, request, x_api_key) ==
  Return(st, NewTask(request),
         [NoResp EXCEPT !.op = "verify_api_key", !.route = request.op,
                        !.x_api_key = x_api_key,
                        !.status = verify_api_key(x_api_key),
                        !.detail = IF x_api_key = None THEN "Field required"
                                   ELSE "Invalid API key"])

\* a request to one of the Routes, up to the first await of its handler.
route_begin(st, request, x_api_key, fault) ==
  IF verify_api_key(x_api_key) # 200 THEN rejected(st, request, x_api_key)
  ELSE begin(st, NewTask([request EXCEPT !.x_api_key = x_api_key,
                                         !.route = request.op]), fault)

\* a request to one of the Routes with no other request in flight.
route(st, request, x_api_key, fault) ==
  Complete(route_begin(st, request, x_api_key, fault), fault)

\* health_check(): no dependency (whatever headers the request carries
\* are not looked at), no state.
health_check ==
  [NoResp EXCEPT !.op = "health", !.route = "health", !.status = 200,
                 !.detail = "ok"]

\* ---------------------------------------------------------------- actions
SetGlobals(st) ==
  /\ client' = st.client
  /\ handles' = st.handles
  /\ phone_code_hash' = st.phone_code_hash
  /\ pending_phone' = st.pending_phone
  /\ session_file' = st.session_file
  /\ auth' = st.auth
  /\ issued' = st.issued

\* a whole request, start to response.
Serve(handled) ==
  \E x \in {handled} :
    /\ SetGlobals(x.st)
    /\ last' = x.task.resp
    /\ UNCHANGED tasks

\* one section of the request in slot i.
Advance(i, stepped) ==
  \E x \in {stepped} :
    /\ SetGlobals(x.st)
    /\ IF x.task.pc = "done"
       THEN tasks' = [tasks EXCEPT ![i] = Idle] /\ last' = x.task.resp
       ELSE tasks' = [tasks EXCEPT ![i] = x.task] /\ last' = last

Quiet == \A i \in Tasks : tasks[i] = Idle

\* client objects and challenge tokens stay within the bounds: a request that
\* may build a client, or send a code, is admitted only while there is room
\* for it beside those already in flight.
Sending ==
  {i \in Tasks : tasks[i].resp.op = "start" /\ tasks[i].pc # "send_code_request"}
CanGetClient == client # NoClient \/ Len(handles) < MaxHandles
CanSend == Len(issued) + Cardinality(Sending) < MaxSends
\* the request gets past the dependency, to its handler.
Reaches(x_api_key) == verify_api_key(x_api_key) = 200
\* the adapter calls the handler of a request issues from the present state
\* when none of them raises, and the faults that can hit one of them (a
\* fault naming a call the request never issues is no fault).
CallsOf(request) == Range(route(Cur, request, API_KEY, "none").task.resp.calls)
FaultsOf(request) ==
  {"none"} \cup UNION {{fault \in Faults : Hits(fault, call)} :
                        call \in CallsOf(request)}
\* the answers get_messages may give to a request: any list, if the request
\* gets as far as asking.
Answers(request, fault) ==
  IF fault = "none" /\ "get_messages" \in CallsOf(request)
  THEN MessageLists ELSE {<<>>}

Init ==
  /\ lifecycle = "init"
  /\ client = NoClient
  /\ handles = <<>>
  /\ phone_code_hash = NoHash
  /\ pending_phone = None
  /\ session_file \in {NoFile, 0}
  /\ auth \in {[k \in Keys |-> IF k = 0 THEN u ELSE None] : u \in Phones \cup {None}}
  /\ session_file = NoFile => auth[0] = None
  /\ issued = <<>>
  /\ tasks = [i \in Tasks |-> Idle]
  /\ admitted = 0
  /\ last = NoResp

\* startup(): get_client() with every exception logged and swallowed; the
\* server accepts requests only once it has returned.
Startup ==
  /\ lifecycle = "init"
  /\ \E fault \in {"none", "connect"} :
       Serve(Handle(Cur, Request("startup", None, None, None), fault))
  /\ lifecycle' = "running"
  /\ UNCHANGED admitted

\* shutdown(), once the requests in flight have been answered.
Shutdown ==
  /\ lifecycle = "running"
  /\ Quiet
  /\ SetGlobals(shutdown(Cur))
  /\ last' = Request("shutdown", None, None, None)
  /\ lifecycle' = "stopped"
  /\ UNCHANGED <<tasks, admitted>>

\* GET /health
Health ==
  /\ lifecycle = "running"
  /\ last' = health_check
  /\ UNCHANGED <<lifecycle, client, handles, phone_code_hash, pending_phone,
                 session_file, auth, issued, tasks, admitted>>

\* GET /session/status
Status ==
  /\ lifecycle = "running"
  /\ \E x_api_key \in ApiKeys :
       IF Reaches(x_api_key)
       THEN /\ CanGetClient
            /\ \E fault \in FaultsOf(Request("status", None, None, None)) :
                 Serve(route(Cur, Request("status", None, None, None),
                             x_api_key, fault))
       ELSE Serve(rejected(Cur, Request("status", None, None, None), x_api_key))
  /\ UNCHANGED <<lifecycle, admitted>>

\* POST /auth/start
RequestCode ==
  /\ lifecycle = "running"
  /\ \E x_api_key \in ApiKeys :
       IF Reaches(x_api_key)
       THEN /\ CanGetClient
            /\ CanSend
            /\ \E phone \in Phones :
                 \E fault \in FaultsOf(Request("start", phone, None, None)) :
                   Serve(route(Cur, Request("start", phone, None, None),
                               x_api_key, fault))
       ELSE Serve(rejected(Cur, Request("start", None, None, None), x_api_key))
  /\ UNCHANGED <<lifecycle, admitted>>

\* POST /auth/verify
VerifyCode ==
  /\ lifecycle = "running"
  /\ \E x_api_key \in ApiKeys :
       IF Reaches(x_api_key)
       THEN /\ CanGetClient
            /\ \E phone \in Phones, code \in Codes, password \in Passwords :
                 \E fault \in FaultsOf(Request("verify", phone, code, password)) :
                   Serve(route(Cur, Request("verify", phone, code, password),
                               x_api_key, fault))
       ELSE Serve(rejected(Cur, Request("verify", None, None, None), x_api_key))
  /\ UNCHANGED <<lifecycle, admitted>>

\* POST /rera/lookup
Lookup ==
  /\ lifecycle = "running"
  /\ \E x_api_key \in ApiKeys :
       IF Reaches(x_api_key)
       THEN /\ CanGetClient
            /\ \E rera_number \in RERANumbers :
                 \E fault \in FaultsOf(RERARequest(rera_number, <<>>)) :
                   \E messages \in Answers(RERARequest(rera_number, <<>>), fault) :
                     Serve(route(Cur, RERARequest(rera_number, messages),
                                 x_api_key, fault))
       ELSE Serve(rejected(Cur, RERARequest(<<>>, <<>>), x_api_key))
  /\ UNCHANGED <<lifecycle, admitted>>

\* POST /auth/logout
Logout ==
  /\ lifecycle = "running"
  /\ \E x_api_key \in ApiKeys :
       IF Reaches(x_api_key)
       THEN \E fault \in FaultsOf(Request("logout", None, None, None)) :
              Serve(route(Cur, Request("logout", None, None, None), x_api_key,
                          fault))
       ELSE Serve(rejected(Cur, Request("logout", None, None, None), x_api_key))
  /\ UNCHANGED <<lifecycle, admitted>>

Next ==
  \/ Startup
  \/ Shutdown
  \/ Health
  \/ Status
  \/ RequestCode
  \/ VerifyCode
  \/ Lookup
  \/ Logout

\* requests handled one after the other.
Spec == Init /\ [][Next]_vars

\* -------- interleaved requests
\* The requests admitted here carry the API key: a request the dependency
\* rejects, and a health check, return before any await and touch no state,
\* so they have nothing to interleave with (Spec covers them).
\* a request arrives and takes the first free slot.
Admit(i) ==
  /\ lifecycle = "running"
  /\ tasks[i] = Idle
  /\ \A j \in 1..(i - 1) : tasks[j] # Idle
  /\ admitted < MaxRequests
  /\ admitted' = admitted + 1

BeginStatus(i) ==
  /\ Admit(i)
  /\ CanGetClient
  /\ \E fault \in {"none", "connect", "is_user_authorized"} :
       Advance(i, route_begin(Cur, Request("status", None, None, None),
                              API_KEY, fault))
  /\ UNCHANGED lifecycle

BeginRequestCode(i) ==
  /\ Admit(i)
  /\ CanGetClient
  /\ CanSend
  /\ \E phone \in Phones :
       \E fault \in {"none", "connect", "is_user_authorized"} :
         Advance(i, route_begin(Cur, Request("start", phone, None, None),
                                API_KEY, fault))
  /\ UNCHANGED lifecycle

BeginVerifyCode(i) ==
  /\ Admit(i)
  /\ CanGetClient
  /\ \E phone \in Phones, code \in Codes, password \in Passwords :
       \E fault \in {"none", "connect", "sign_in"} :
         Advance(i, route_begin(Cur, Request("verify", phone, code, password),
                                API_KEY, fault))
  /\ UNCHANGED lifecycle

\* the answer of get_messages is drawn when that await returns (Resume).
BeginLookup(i) ==
  /\ Admit(i)
  /\ CanGetClient
  /\ \E rera_number \in RERANumbers :
       \E fault \in {"none", "connect", "is_user_authorized"} :
         Advance(i, route_begin(Cur, RERARequest(rera_number, <<>>),
                                API_KEY, fault))
  /\ UNCHANGED lifecycle

BeginLogout(i) ==
  /\ Admit(i)
  /\ \E fault \in {"none", "log_out", "log_out_rpc"} :
       Advance(i, route_begin(Cur, Request("logout", None, None, None),
                              API_KEY, fault))
  /\ UNCHANGED lifecycle

\* the adapter calls the section after t's await may issue.
CallsAfter(t) ==
  CASE t.pc = "connect" /\ t.resp.op \in {"status", "start", "lookup"} ->
         {"is_user_authorized"}
    [] t.pc = "is_user_authorized" /\ t.resp.op = "lookup" -> {"get_entity"}
    [] t.pc = "get_entity" -> {"send_message"}
    [] t.pc = "sleep" -> {"get_messages"}
    [] t.pc = "connect" /\ t.resp.op = "verify" -> {"sign_in"}
    [] t.pc = "is_user_authorized" /\ t.resp.op = "status" -> {"get_me"}
    [] t.pc = "is_user_authorized" /\ t.resp.op = "start" -> {"send_code_request"}
    [] t.pc = "sign_in" -> {"sign_in_password"}
    [] OTHER -> {}

\* the await the request in slot i is suspended in returns.
Resume(i) ==
  /\ tasks[i] # Idle
  /\ \E fault \in {"none"} \cup CallsAfter(tasks[i]) :
       \E messages \in (IF tasks[i].pc = "get_messages" /\ tasks[i].res = "ok"
                         THEN MessageLists ELSE {<<>>}) :
         Advance(i, resume(Cur, [tasks[i] EXCEPT !.resp.messages = messages],
                           fault))
  /\ UNCHANGED <<lifecycle, admitted>>

NextAsync ==
  \/ Startup
  \/ Shutdown
  \/ \E i \in Tasks : BeginLookup(i)
  \/ \E i \in Tasks : BeginStatus(i)
  \/ \E i \in Tasks : BeginRequestCode(i)
  \/ \E i \in Tasks : BeginVerifyCode(i)
  \/ \E i \in Tasks : BeginLogout(i)
  \/ \E i \in Tasks : Resume(i)

\* the process starts with no session file, or with the valid session of the
\* first account.
InitAsync ==
  /\ Init
  /\ session_file # NoFile => auth[0] = "+15550001"

\* requests interleaving at their awaits.
SpecAsync == InitAsync /\ [][NextAsync]_vars

TypeOK ==
  /\ lifecycle \in {"init", "running", "stopped"}
  /\ client \in 0..MaxHandles
  /\ Len(handles) <= MaxHandles
  /\ phone_code_hash \in 0..MaxSends
  /\ pending_phone \in Phones \cup {None}
  /\ session_file \in {NoFile} \cup Keys
  /\ Len(issued) <= MaxSends
  /\ admitted \in 0..MaxRequests
  /\ \A i \in Tasks :
       tasks[i].pc \in {"idle", "sleep"} \cup (Faults \ {"none", "log_out_rpc"})
  /\ last.messages \in MessageLists
  /\ last.x_api_key \in ApiKeys

\* ================================================================ claims
\* the request just handled called tc.sign_in (code or password).
SignInAttempted(resp) ==
  "sign_in" \in Range(resp.calls) \/ "sign_in_password" \in Range(resp.calls)

\* nothing a verification could consume or persist has changed in this step.
AuthStateUnchanged ==
  UNCHANGED <<phone_code_hash, pending_phone, session_file, auth, issued>>

C2_NoPendingChallenge ==
  (/\ last.op = "verify"
   /\ ~last.success
   /\ last.fault # "connect"
   /\ pending_phone = None
   /\ phone_code_hash = NoHash)
    => /\ last.status = 400
       /\ last.detail = "NoPendingChallenge"

\* ---------------------------------------------------------------- C3
\* C3: a VerifyCode the adapter rejects as invalid was made with the pending
\* phone, fails with InvalidCode (400) and leaves the pending pair and the
\* session store unchanged; a VerifyCode right after it with the same phone,
\* the correct code (and the password, if the account needs one) and no
\* adapter failure signs in against the same challenge token and succeeds.
C3_InvalidCodeKeepsPending ==
  [][/\ (last'.op = "verify" /\ last'.answer = "invalid")
          => /\ last'.status = 400
             /\ last'.detail = "InvalidCode"
             /\ ~last'.success
             /\ pending_phone = last'.phone
             /\ last'.hash_used = phone_code_hash
             /\ AuthStateUnchanged
     /\ (/\ last.op = "verify" /\ last.detail = "InvalidCode"
         /\ last'.op = "verify" /\ last'.phone = last.phone
         /\ last'.code = CorrectCode /\ last'.fault = "none"
         /\ Has2FA(last.phone) => last'.password = CorrectPassword)
          => /\ last'.success
             /\ last'.status = 200
             /\ last'.hash_used = last.hash_used
             /\ session_file' # NoFile]_vars

\* the adapter rejected a wrong code for the pending phone.
C3_Witness ==
  /\ last.op = "verify"
  /\ last.detail = "InvalidCode"
  /\ last.code # CorrectCode
  /\ pending_phone = last.phone
  /\ phone_code_hash = last.hash_used

\* ---------------------------------------------------------------- C4
\* C4: when sign_in answers "password needed" and the request carries no
\* password, the result is TwoFactorRequired (success=false, requires_2fa)
\* and neither the pending pair nor the session store changes; with a
\* password the handler signs in with it, and with the right password ends
\* as a plain success does: credential saved, pending cleared, authorised.
C4_TwoFactor ==
  [][(last'.op = "verify" /\ last'.answer = "2fa")
       => IF last'.password \in {None, ""}
          THEN /\ last'.status = 200
               /\ ~last'.success
               /\ last'.requires_2fa
               /\ "sign_in_password" \notin Range(last'.calls)
               /\ pending_phone' = last'.phone
               /\ AuthStateUnchanged
          ELSE /\ ~last'.requires_2fa
               /\ "sign_in_password" \in Range(last'.calls)
               /\ (last'.password = CorrectPassword /\ last'.fault = "none")
                    => last'.success
               /\ last'.success
                    => /\ session_file' = handles'[client'].key
                       /\ auth'[session_file'] = last'.phone
                       /\ pending_phone' = None
                       /\ phone_code_hash' = NoHash
               /\ ~last'.success => AuthStateUnchanged]_vars

\* the TwoFactorRequired result was returned and the challenge is still
\* pending.
C4_Witness ==
  /\ last.op = "verify"
  /\ last.requires_2fa
  /\ last.answer = "2fa"
  /\ pending_phone = last.phone
  /\ phone_code_hash = last.hash_used

\* ---------------------------------------------------------------- C5
\* C5: a successful VerifyCode saves the client's session string, clears both
\* pending globals and leaves the client authorised as the verified phone; a
\* Status right after it that meets no adapter failure reports
\* authenticated=true with that phone; and only a successful VerifyCode
\* ever puts a credential into the session store.
C5_SuccessPersists ==
  [][/\ (last'.op = "verify" /\ last'.success)
          => /\ last'.status = 200
             /\ session_file' = handles'[client'].key
             /\ auth'[session_file'] = last'.phone
             /\ pending_phone' = None
             /\ phone_code_hash' = NoHash
     /\ (/\ last.op = "verify" /\ last.success
         /\ last'.op = "status" /\ last'.fault = "none")
          => /\ last'.authenticated
             /\ last'.me_phone = last.phone
     /\ (session_file' # session_file /\ session_file' # NoFile)
          => last'.op = "verify" /\ last'.success]_vars

\* a verification succeeded: the credential is stored and nothing is pending.
C5_Witness ==
  /\ last.op = "verify"
  /\ last.success
  /\ session_file # NoFile
  /\ client # NoClient
  /\ auth[session_file] = last.phone
  /\ pending_phone = None

\* ---------------------------------------------------------------- C6
\* the adapter would report the global client as authorised.
AdapterAuthenticated ==
  /\ client # NoClient
  /\ handles[client].connected
  /\ auth[handles[client].key] # None

\* C6: a RequestCode handled while the adapter reports Authenticated (the
\* query itself not failing) returns success with code_sent=false, issues no
\* send_code_request and changes no state at all, for every phone; so a
\* second run sees the same state and gives the same answer.
C6_AlreadyAuthenticated ==
  [][(AdapterAuthenticated /\ last'.op = "start" /\ last'.fault = "none")
       => /\ last'.status = 200
          /\ last'.success
          /\ ~last'.code_sent
          /\ "send_code_request" \notin Range(last'.calls)
          /\ AuthStateUnchanged
          /\ UNCHANGED <<client, handles>>]_vars

\* RequestCode short-circuited on an authorised client.
C6_Witness ==
  /\ last.op = "start"
  /\ last.success
  /\ ~last.code_sent
  /\ AdapterAuthenticated
  /\ issued # <<>>

\* ---------------------------------------------------------------- C7
\* C7: the pending globals are both unset, or they are the phone and the
\* challenge token of one send_code_request that succeeded; a RequestCode
\* that sent a code leaves exactly its own pair pending, and from then on a VerifyCode for any other phone is rejected as a
\* mismatch, whatever was pending before.
C7_OnePending ==
  /\ pending_phone = None <=> phone_code_hash = NoHash
  /\ phone_code_hash # NoHash
       => /\ phone_code_hash \in DOMAIN issued
          /\ issued[phone_code_hash] = pending_phone
  /\ (last.op = "start" /\ last.code_sent)
       => /\ pending_phone = last.phone
          /\ phone_code_hash = last.hash_used
          /\ \A phone \in Phones \ {last.phone}, code \in Codes,
                password \in Passwords :
               LET resp == Handle(Cur, Request("verify", phone, code, password),
                                  "none").task.resp
               IN /\ resp.detail = "PhoneMismatch"
                  /\ ~SignInAttempted(resp)

\* a second RequestCode, for another phone, replaced the pending challenge
\* of the first.
C7_Witness ==
  /\ last.op = "start"
  /\ last.code_sent
  /\ Len(issued) = 2
  /\ issued[1] # issued[2]
  /\ pending_phone = issued[2]
  /\ phone_code_hash = 2

\* ---------------------------------------------------------------- C8
\* C8: after a Logout that returned success there is no global client and no
\* session file; a Status handled right after it builds a new client from
\* the empty session string (a fresh auth key) and reports
\* authenticated=false with no phone.
C8_LogoutThenStatus ==
  [][/\ (last'.op = "logout" /\ last'.success)
          => /\ client' = NoClient
             /\ session_file' = NoFile
     /\ (last.op = "logout" /\ last.success /\ last'.op = "status")
          => /\ last'.status = 200
             /\ ~last'.authenticated
             /\ last'.me_phone = None
             /\ last'.calls[1] = "connect"
             /\ Len(handles') = Len(handles) + 1
             /\ client' = Len(handles')
             /\ handles'[client'].key = client']_vars

\* a Status has just built the second client of the process (the first was
\* discarded by a Logout) and found it unauthorised, while the auth key of
\* the logged-out client is still known to the Telegram side.
C8_Witness ==
  /\ last.op = "status"
  /\ last.fault = "none"
  /\ last.calls = <<"connect", "is_user_authorized">>
  /\ ~last.authenticated
  /\ client = 2
  /\ session_file = NoFile
  /\ \E k \in Keys : auth[k] # None

\* ---------------------------------------------------------------- C9
\* the process is logged out: nothing stored, and no client or one the
\* Telegram side knows no user for.
LoggedOut ==
  /\ session_file = NoFile
  /\ client # NoClient => auth[handles[client].key] = None

\* C9: a Logout handled while logged out, the adapter raising no failure of
\* its own, returns success and leaves the state logged out.  (A Logout that
\* errors changes nothing, so LoggedOut after the request is LoggedOut
\* before it.)
C9_LogoutIdempotent ==
  (last.op = "logout" /\ last.fault = "none" /\ LoggedOut)
    => /\ last.status = 200
       /\ last.success
       /\ client = NoClient

\* ---------------------------------------------------------------- C10
\* C10: after a Logout that returned success no Pending Authentication
\* exists.
C10_LogoutClearsPending ==
  (last.op = "logout" /\ last.success)
    => /\ pending_phone = None
       /\ phone_code_hash = NoHash

\* ---------------------------------------------------------------- C11
\* what the adapter answers to is_user_authorized on the client get_client
\* hands out in this state (the global one, or one built from the stored
\* session): "no".
AdapterReportsNo ==
  IF client # NoClient
  THEN handles[client].connected /\ auth[handles[client].key] = None
  ELSE auth[IF session_file = NoFile THEN Len(handles) + 1 ELSE session_file]
         = None

\* the adapter calls of the lookup relay proper.
RelayCalls == {"get_entity", "send_message", "get_messages"}

\* C11: a Lookup handled while the adapter reports "not authenticated" (its
\* connect and its authorisation query not failing) is answered 401
\* NotAuthenticated, and the request issues no get_entity, no send_message
\* and no get_messages.
C11_LookupNotAuthenticated ==
  [][(/\ last'.op = "lookup"
      /\ last'.fault = "none"
      /\ AdapterReportsNo)
       => /\ last'.status = 401
          /\ last'.detail = "NotAuthenticated"
          /\ ~last'.success
          /\ Range(last'.calls) \cap RelayCalls = {}
          /\ last'.response = None]_vars

\* a Lookup was turned down on a connected client nobody is signed in on.
C11_Witness ==
  /\ last.op = "lookup"
  /\ last.status = 401
  /\ last.calls = <<"is_user_authorized">>
  /\ AdapterReportsNo
  /\ client # NoClient

\* ---------------------------------------------------------------- C12
\* the positions of the messages the bot wrote, in the list Lookup looked at.
Inbound(messages) == {i \in DOMAIN messages : ~messages[i].out}

\* C12: a Lookup that got as far as reading the conversation returns
\* success=true; its response is the text of the first message of the list
\* that is not the caller's own, and it is the fixed "no response" sentence
\* exactly when the list holds no such message.
C12_FirstInbound ==
  (last.op = "lookup" /\ "get_messages" \in Range(last.calls)
     /\ last.fault = "none" /\ last.status = 200)
    => /\ last.success
       /\ "send_message" \in Range(last.calls)
       /\ (last.response = NoResponseYet) <=> (Inbound(last.messages) = {})
       /\ \A i \in Inbound(last.messages) :
            (\A j \in Inbound(last.messages) : i <= j)
              => last.response = last.messages[i].text

\* ---------------------------------------------------------------- C13
\* C13: every Status is answered 200; it reports authenticated=true only if
\* no adapter call of the request failed and the client it used is connected
\* and signed in, and then with that account's phone; after any adapter error
\* it reports authenticated=false and no phone; and it changes neither the
\* pending pair nor the session store.
C13_StatusNeverFails ==
  [][last'.op = "status"
       => /\ last'.status = 200
          /\ last'.authenticated
               => /\ last'.fault = "none"
                  /\ client' # NoClient
                  /\ handles'[client'].connected
                  /\ auth'[handles'[client'].key] # None
                  /\ last'.me_phone = auth'[handles'[client'].key]
          /\ ~last'.authenticated => last'.me_phone = None
          /\ last'.fault # "none" => ~last'.authenticated
          /\ UNCHANGED <<phone_code_hash, pending_phone, session_file>>]_vars

\* a Status whose account query failed on a signed-in client answered
\* "not authenticated".
C13_Witness ==
  /\ last.op = "status"
  /\ last.fault = "get_me"
  /\ last.status = 200
  /\ ~last.authenticated
  /\ AdapterAuthenticated

\* ---------------------------------------------------------------- C14
\* C14: each error outcome has the status of its category: a wrong key 401,
\* PhoneMismatch / NoPendingChallenge / InvalidCode 400, NotAuthenticated 401,
\* TargetNotFound 404, and an adapter call that raises in RequestCode,
\* VerifyCode, Lookup or Logout 500.
C14_ErrorStatuses ==
  /\ (last.op = "verify_api_key" /\ last.x_api_key # None) => last.status = 401
  /\ last.detail \in {"PhoneMismatch", "NoPendingChallenge", "InvalidCode"}
       => last.status = 400
  /\ last.detail = "NotAuthenticated" => last.status = 401
  /\ last.detail = "TargetNotFound" => last.status = 404
  /\ (last.op \in {"start", "verify", "lookup", "logout"}
        /\ last.fault # "none" /\ last.detail = "AdapterError")
       => last.status = 500

\* ---------------------------------------------------------------- C15
\* C15: a VerifyCode answered PhoneMismatch or NoPendingChallenge, and a
\* Lookup answered NotAuthenticated, have left the client, the pending pair
\* and the session store as they were, and have built and connected no
\* client.  (Read in the claim's favour: the authorisation query by which
\* Lookup learns that it is not authenticated is not counted.)
C15_DomainErrorsNoSideEffects ==
  [][(\/ /\ last'.op = "verify"
         /\ last'.detail \in {"PhoneMismatch", "NoPendingChallenge"}
      \/ /\ last'.op = "lookup"
         /\ last'.detail = "NotAuthenticated")
       => /\ Range(last'.calls) \subseteq {"is_user_authorized"}
          /\ last'.op = "verify" => last'.calls = <<>>
          /\ UNCHANGED <<client, handles, phone_code_hash, pending_phone,
                         session_file>>]_vars

\* ---------------------------------------------------------------- C16
\* the request was not let through: its handler did not run, no adapter call
\* was made and nothing changed.
TurnedAway ==
  /\ last'.op = "verify_api_key"
  /\ last'.calls = <<>>
  /\ UNCHANGED <<client, handles, phone_code_hash, pending_phone,
                 session_file, auth, issued>>

\* C16 (as stated): a request to a route other than the health check whose
\* X-API-Key header does not equal the configured key is answered 401 and
\* turned away before its handler.
C16_MismatchIs401 ==
  [][(last'.route \in Routes /\ last'.x_api_key # API_KEY)
       => /\ last'.status = 401
          /\ TurnedAway]_vars

\* C16 (amended): a request to a route other than the health check is
\* handled only if its X-API-Key header equals the configured key; with
\* another value it is answered 401, with no such header 422, and in both
\* cases it is turned away before its handler; the health check answers
\* {status: ok}, looks at no header and changes nothing.
C16_KeyRequired ==
  [][/\ (last'.route \in Routes /\ last'.x_api_key # API_KEY)
          => /\ last'.status = IF last'.x_api_key = None THEN 422 ELSE 401
             /\ TurnedAway
     /\ last'.op \in Routes => last'.x_api_key = API_KEY
     /\ last'.op = "health"
          => /\ last'.status = 200
             /\ last'.detail = "ok"
             /\ last'.x_api_key = None
             /\ UNCHANGED <<client, handles, phone_code_hash, pending_phone,
                            session_file, auth, issued>>]_vars

\* a Logout with a wrong key was turned away while a client was signed in
\* and a challenge pending elsewhere in the run.
C16_Witness ==
  /\ last.op = "verify_api_key"
  /\ last.route = "logout"
  /\ last.x_api_key = "wrong-key"
  /\ last.status = 401
  /\ client # NoClient
  /\ session_file # NoFile

\* ---------------------------------------------------------------- C17
\* the request in slot i is past get_client in the state after the step.
HoldsHandle(i) ==
  /\ tasks'[i].pc \notin {"idle", "connect"}
  /\ tasks'[i].resp.op # "logout"

\* C17: under any interleaving a client is built only while the global one
\* is unset, from the stored session if there is one and from an empty one
\* otherwise, and becomes the global client; the global client is unset only
\* by a Logout; and what get_client returns to a request is the global
\* client, never None.
C17_SingleHandle ==
  [][/\ Len(handles') # Len(handles)
          => /\ client = NoClient
             /\ Len(handles') = Len(handles) + 1
             /\ client' = Len(handles')
             /\ handles'[client'].key =
                  IF session_file = NoFile THEN client' ELSE session_file
     /\ (client # NoClient /\ client' # client)
          => client' = NoClient /\ last'.op = "logout"
     /\ \A i \in Tasks :
          (HoldsHandle(i) /\ tasks'[i].tc # tasks[i].tc)
            => /\ tasks'[i].tc # NoClient
               /\ tasks'[i].tc = client']_vars

\* ---------------------------------------------------------------- C18
\* a request other than a Logout is admitted in this step and finds a
\* global client.
ReceivesGlobalClient ==
  /\ admitted' = admitted + 1
  /\ client # NoClient
  /\ \/ \E i \in Tasks : tasks[i] = Idle /\ HoldsHandle(i)
     \/ tasks' = tasks /\ last'.op \in Routes \ {"logout"}

\* C18: the client get_client hands to a request has completed its connect:
\* a request that finds a global client finds it connected.
C18_ConnectedHandle ==
  [][ReceivesGlobalClient => handles[client].connected]_vars

\* ---------------------------------------------------------------- C19
\* the VerifyCode in slot i returns success in this step.
VerifySucceeds(i) ==
  /\ tasks[i].resp.op = "verify"
  /\ tasks[i].pc \in {"sign_in", "sign_in_password"}
  /\ tasks'[i] = Idle
  /\ last'.op = "verify"
  /\ last'.success

\* no VerifyCode is waiting for the answer to a sign-in in the state after
\* the step.
NoSignInInFlight ==
  \A i \in Tasks : tasks'[i].pc \notin {"sign_in", "sign_in_password"}

\* C19: under any interleaving, no challenge is pending while the global
\* client is signed in (a VerifyCode still waiting for its sign-in aside); a
\* VerifyCode that succeeds leaves none pending, and what it clears is not
\* the challenge of another request.
C19_NoPendingWhileAuthenticated ==
  [][/\ (AdapterAuthenticated' /\ NoSignInInFlight)
          => pending_phone' = None /\ phone_code_hash' = NoHash
     /\ \A i \in Tasks :
          VerifySucceeds(i)
            => /\ pending_phone' = None
               /\ phone_code_hash' = NoHash
               /\ pending_phone \in {None, last'.phone}
               /\ phone_code_hash \in {NoHash, last'.hash_used}]_vars

\* ---------------------------------------------------------------- C20
\* C20: a credential is written to the session store only by a VerifyCode
\* that holds the global client of the moment, that is, one that got its
\* client after the last Logout that succeeded: a VerifyCode that got its
\* client before that Logout holds a client the Logout has discarded.
C20_NoWriteAfterLogout ==
  [][(session_file' # session_file /\ session_file' # NoFile)
       => /\ last'.op = "verify"
          /\ last'.success
          /\ client' # NoClient
          /\ handles'[client'].key = session_file']_vars

====
